---- MODULE Spec2Model ----
(***************************************************************************)
(* A model of PickleDb (src/src/pickledb.rs): the two in-memory maps, the  *)
(* dump policy, the database file and the temporary file dump() writes,    *)
(* with every file-system call of dump() able to fail.                     *)
(***************************************************************************)
EXTENDS Integers, Sequences, FiniteSets, TLC

(* ------------------------------ bounds --------------------------------- *)

\* longest list the model builds
MaxLen == 2
\* longest sequence handed to one lextend call
MaxSeq == 2
\* number of steps (calls and pauses between calls) one PickleDb lives for
MaxSteps == 3
\* the Duration given to PickleDbDumpPolicy::PeriodicDump, in clock ticks
Duration == 1
\* the time since last_dump is tracked up to this value (one past Duration)
MaxSince == Duration + 1

Keys == {"a", "b"}

\* caller values: an i32 and a String
I32(n) == [ty |-> "i32", v |-> n]
Str(n) == [ty |-> "String", v |-> n]
Values == {I32(1), Str(1)}
\* a value whose Serialize implementation reports an error
BadValue == [ty |-> "Unserializable", v |-> 0]
Types == {"i32", "String"}

Policies == {"NeverDump", "AutoDump", "DumpUponRequest", "PeriodicDump"}

\* what the file system does to one dump(): every call succeeds, File::create
\* of the temporary file fails, the write into it fails, or the rename fails
IoOutcomes == {"ok", "create_fail", "write_fail", "rename_fail"}

(* --------------------------- Option and HashMap ------------------------ *)

None == <<>>
Some(x) == <<x>>

EmptyMap == [k \in {} |-> <<>>]
Get(m, k) == IF k \in DOMAIN m THEN Some(m[k]) ELSE None
Insert(m, k, v) == [x \in (DOMAIN m) \cup {k} |-> IF x = k THEN v ELSE m[x]]
Remove(m, k) == [x \in (DOMAIN m) \ {k} |-> m[x]]

\* Vec::remove(pos), Vec::insert(pos, x) and Vec::truncate(len), 0-based pos
VecRemove(s, pos) == [i \in 1..(Len(s) - 1) |-> IF i <= pos THEN s[i] ELSE s[i + 1]]
VecInsert(s, pos, x) ==
    [i \in 1..(Len(s) + 1) |-> IF i <= pos THEN s[i] ELSE IF i = pos + 1 THEN x ELSE s[i - 1]]
VecTruncate(s, len) == IF len < Len(s) THEN SubSeq(s, 1, len) ELSE s

(* ------------------------------ Serializer ----------------------------- *)

\* JsonSerializer::serialize_data: an i32 n is the digit n, a String is its
\* letter between double quotes; bytes are ASCII codes
serialize_data(value) ==
    IF value.ty = "i32" THEN [ok |-> TRUE, data |-> <<48 + value.v>>]
    ELSE IF value.ty = "String" THEN [ok |-> TRUE, data |-> <<34, 96 + value.v, 34>>]
    ELSE [ok |-> FALSE, data |-> <<>>]

\* a deserialize_data that decodes the bytes whatever type is asked for
deserialize_data_untyped(ser_data, ty) ==
    IF Len(ser_data) = 1 /\ ser_data[1] \in 48..57
        THEN Some(I32(ser_data[1] - 48))
    ELSE IF Len(ser_data) = 3 /\ ser_data[1] = 34 /\ ser_data[3] = 34
        THEN Some(Str(ser_data[2] - 96))
    ELSE None

\* JsonSerializer::deserialize_data::<V>: None when the bytes are not a V
deserialize_data(ser_data, ty) ==
    IF ty = "i32" /\ Len(ser_data) = 1 /\ ser_data[1] \in 48..57
        THEN Some(I32(ser_data[1] - 48))
    ELSE IF ty = "String" /\ Len(ser_data) = 3 /\ ser_data[1] = 34 /\ ser_data[3] = 34
        THEN Some(Str(ser_data[2] - 96))
    ELSE None

\* std::str::from_utf8(value).unwrap() and String::as_bytes
from_utf8(bytes) == [utf8 |-> bytes]
as_bytes(str) == str.utf8

\* JsonSerializer::serialize_db: the file is the pair of the two objects,
\* every stored byte string re-represented as text
serialize_db(m, lm) ==
    [ok |-> TRUE,
     data |-> [complete |-> TRUE,
               scalars |-> {<<k, from_utf8(m[k])>> : k \in DOMAIN m},
               lists |-> {<<k, [i \in 1..Len(lm[k]) |-> from_utf8(lm[k][i])]>> : k \in DOMAIN lm}]]

\* a deserialize_db that reads every list back to front
deserialize_db_reversed(ser_db) ==
    IF ~ser_db.complete THEN [ok |-> FALSE, map |-> EmptyMap, list_map |-> EmptyMap]
    ELSE [ok |-> TRUE,
          map |-> [k \in {e[1] : e \in ser_db.scalars} |->
                      as_bytes((CHOOSE e \in ser_db.scalars : e[1] = k)[2])],
          list_map |-> [k \in {e[1] : e \in ser_db.lists} |->
                      LET list == (CHOOSE e \in ser_db.lists : e[1] = k)[2]
                      IN [i \in 1..Len(list) |-> as_bytes(list[Len(list) + 1 - i])]]]

\* a deserialize_db that reads bytes that are not a whole document as an empty
\* database
deserialize_db_lenient(ser_db) ==
    IF ~ser_db.complete THEN [ok |-> TRUE, map |-> EmptyMap, list_map |-> EmptyMap]
    ELSE [ok |-> TRUE,
          map |-> [k \in {e[1] : e \in ser_db.scalars} |->
                      as_bytes((CHOOSE e \in ser_db.scalars : e[1] = k)[2])],
          list_map |-> [k \in {e[1] : e \in ser_db.lists} |->
                      LET list == (CHOOSE e \in ser_db.lists : e[1] = k)[2]
                      IN [i \in 1..Len(list) |-> as_bytes(list[i])]]]

\* JsonSerializer::deserialize_db: fails on bytes that are not a whole document
deserialize_db(ser_db) ==
    IF ~ser_db.complete THEN [ok |-> FALSE, map |-> EmptyMap, list_map |-> EmptyMap]
    ELSE [ok |-> TRUE,
          map |-> [k \in {e[1] : e \in ser_db.scalars} |->
                      as_bytes((CHOOSE e \in ser_db.scalars : e[1] = k)[2])],
          list_map |-> [k \in {e[1] : e \in ser_db.lists} |->
                      LET list == (CHOOSE e \in ser_db.lists : e[1] = k)[2]
                      IN [i \in 1..Len(list) |-> as_bytes(list[i])]]]

\* the content a write leaves in a file when it stops before the end
PartialContent == [complete |-> FALSE, scalars |-> {}, lists |-> {}]

(* -------------------------------- state -------------------------------- *)

VARIABLES
    map,          \* PickleDb.map: key -> encoded value
    list_map,     \* PickleDb.list_map: name -> sequence of encoded values
    dump_policy,  \* PickleDb.dump_policy
    since_dump,   \* Instant::now() - PickleDb.last_dump, in ticks, capped
    file,         \* the file at db_file_path: None or Some(content)
    temp,         \* the file at "<db_file_path>.temp.<secs>": None or Some(content)
    pc,           \* "ready", "panicked", "dropped"; in a dump() followed statement
                  \* by statement: "encoded", "writing", "written", "renamed",
                  \* and "crashed" when the process stopped inside it
    last,         \* the most recent call: its name and key, what the key named
                  \* before it, its result, and the number of times dump()
                  \* replaced the file (writes) or failed in the file system
                  \* (fails) during it
    steps,        \* how many steps the PickleDb has lived for
    durable,      \* the file as the last call that finished left it
    since_call,   \* the time since the most recent call returned, in ticks
    since_write,  \* the time since new() or load() or the most recent dump() that
                  \* replaced the file, whichever is latest, in ticks, capped
    writers       \* the dump() calls of two PickleDb instances on one path that
                  \* run at the same time (none of them unless said otherwise)

vars == <<map, list_map, dump_policy, since_dump, file, temp, pc, last, steps, durable,
          since_call, since_write, writers>>

\* no second PickleDb on the path and no dump() in steps
NoWriters == [pc |-> <<"idle", "idle">>, at |-> <<"none", "none">>, same |-> FALSE,
              db2 |-> PartialContent, temp2 |-> None]

\* the PickleDb is alive and the caller makes another call
Ready == pc = "ready" /\ steps < MaxSteps

\* the part of the state a call works on, threaded through its statements
World == [map |-> map, list_map |-> list_map, since_dump |-> since_dump,
          file |-> file, temp |-> temp, writes |-> 0, fails |-> 0]

\* what a key names when a call starts
Was(key) ==
    IF key \in DOMAIN map /\ key \in DOMAIN list_map THEN "both"
    ELSE IF key \in DOMAIN map THEN "scalar"
    ELSE IF key \in DOMAIN list_map THEN "list"
    ELSE "absent"

(* ------------------------------- new() --------------------------------- *)

\* no value or type argument
NoArg == [ty |-> "", v |-> 0]

NoCall == [op |-> "new", key |-> "", arg |-> NoArg, was |-> "absent", tag |-> "Ok", val |-> 0,
           writes |-> 0, fails |-> 0]

\* PickleDb::new: both maps empty, last_dump = now; the path holds no file
Init ==
    /\ map = EmptyMap
    /\ list_map = EmptyMap
    /\ dump_policy \in Policies
    /\ since_dump = 0
    /\ file = None
    /\ temp = None
    /\ pc = "ready"
    /\ last = NoCall
    /\ steps = 0
    /\ durable = None
    /\ since_call = 0
    /\ since_write = 0
    /\ writers = NoWriters

(* ---------------------------- dump, dumpdb ----------------------------- *)

\* an fs::write that writes over the database file itself
fs_write_in_place(w, ser_db, io) ==
    IF io = "create_fail" THEN [ok |-> FALSE, w |-> [w EXCEPT !.fails = @ + 1]]
    ELSE IF io = "write_fail"
        THEN [ok |-> FALSE, w |-> [w EXCEPT !.file = Some(PartialContent), !.fails = @ + 1]]
    ELSE [ok |-> TRUE, w |-> [w EXCEPT !.temp = Some(ser_db)]]

\* fs::write(&temp_file_path, ser_db): File::create, then write_all
fs_write(w, ser_db, io) ==
    IF io = "create_fail" THEN [ok |-> FALSE, w |-> [w EXCEPT !.fails = @ + 1]]
    ELSE IF io = "write_fail"
        THEN [ok |-> FALSE, w |-> [w EXCEPT !.temp = Some(PartialContent), !.fails = @ + 1]]
    ELSE [ok |-> TRUE, w |-> [w EXCEPT !.temp = Some(ser_db)]]

\* fs::rename(temp_file_path, &self.db_file_path): the temporary file
\* replaces the database file in one step
fs_rename(w, io) ==
    IF io = "rename_fail" THEN [ok |-> FALSE, w |-> [w EXCEPT !.fails = @ + 1]]
    ELSE [ok |-> TRUE, w |-> [w EXCEPT !.file = w.temp, !.temp = None, !.writes = @ + 1]]

\* a dump that writes the file whatever the policy is
dump_always(w, io) ==
    LET ser == serialize_db(w.map, w.list_map) IN
    IF ~ser.ok THEN [res |-> "ErrSer", w |-> w]
    ELSE LET wr == fs_write(w, ser.data, io) IN
         IF ~wr.ok THEN [res |-> "ErrIo", w |-> wr.w]
         ELSE LET rn == fs_rename(wr.w, io) IN
              IF ~rn.ok THEN [res |-> "ErrIo", w |-> rn.w]
              ELSE [res |-> "Ok", w |-> rn.w]

\* a dump that leaves last_dump as it is
dump_keep_last_dump(w, io) ==
    IF dump_policy = "NeverDump" THEN [res |-> "Ok", w |-> w]
    ELSE LET ser == serialize_db(w.map, w.list_map) IN
         IF ~ser.ok THEN [res |-> "ErrSer", w |-> w]
         ELSE LET wr == fs_write(w, ser.data, io) IN
              IF ~wr.ok THEN [res |-> "ErrIo", w |-> wr.w]
              ELSE LET rn == fs_rename(wr.w, io) IN
                   IF ~rn.ok THEN [res |-> "ErrIo", w |-> rn.w]
                   ELSE [res |-> "Ok", w |-> rn.w]

\* PickleDb::dump
dump(w, io) ==
    IF dump_policy = "NeverDump" THEN [res |-> "Ok", w |-> w]
    ELSE LET ser == serialize_db(w.map, w.list_map) IN
         IF ~ser.ok THEN [res |-> "ErrSer", w |-> w]
         ELSE LET wr == fs_write(w, ser.data, io) IN
              IF ~wr.ok THEN [res |-> "ErrIo", w |-> wr.w]
              ELSE LET rn == fs_rename(wr.w, io) IN
                   IF ~rn.ok THEN [res |-> "ErrIo", w |-> rn.w]
                   ELSE [res |-> "Ok",
                         w |-> IF dump_policy = "PeriodicDump"
                               THEN [rn.w EXCEPT !.since_dump = 0]
                               ELSE rn.w]

\* a dumpdb that persists under PeriodicDump only
dumpdb_periodic_only(w, io) ==
    IF dump_policy = "PeriodicDump" /\ w.since_dump > Duration
    THEN dump([w EXCEPT !.since_dump = 0], io)
    ELSE [res |-> "Ok", w |-> w]

\* a dumpdb that persists under DumpUponRequest as it does under AutoDump
dumpdb_on_request(w, io) ==
    IF dump_policy \in {"AutoDump", "DumpUponRequest"} THEN dump(w, io)
    ELSE IF dump_policy = "PeriodicDump"
        THEN IF w.since_dump > Duration
             THEN dump([w EXCEPT !.since_dump = 0], io)
             ELSE [res |-> "Ok", w |-> w]
    ELSE [res |-> "Ok", w |-> w]

\* a dumpdb that persists when exactly the Duration has passed
dumpdb_at_interval(w, io) ==
    IF dump_policy = "AutoDump" THEN dump(w, io)
    ELSE IF dump_policy = "PeriodicDump"
        THEN IF w.since_dump >= Duration
             THEN dump([w EXCEPT !.since_dump = 0], io)
             ELSE [res |-> "Ok", w |-> w]
    ELSE [res |-> "Ok", w |-> w]

\* a dumpdb that persists under PeriodicDump whatever time has passed
dumpdb_every_change(w, io) ==
    IF dump_policy \in {"AutoDump", "PeriodicDump"} THEN dump(w, io)
    ELSE [res |-> "Ok", w |-> w]

\* PickleDb::dumpdb
dumpdb(w, io) ==
    IF dump_policy = "AutoDump" THEN dump(w, io)
    ELSE IF dump_policy = "PeriodicDump"
        THEN IF w.since_dump > Duration
             THEN dump([w EXCEPT !.since_dump = 0], io)
             ELSE [res |-> "Ok", w |-> w]
    ELSE [res |-> "Ok", w |-> w]

\* a call returns: the world it leaves becomes the state; arg is the value or
\* the type the caller gave, when the call takes one
ReturnArg(w, op, key, arg, tag, val) ==
    /\ map' = w.map
    /\ list_map' = w.list_map
    /\ since_dump' = w.since_dump
    /\ file' = w.file
    /\ temp' = w.temp
    /\ last' = [op |-> op, key |-> key, arg |-> arg, was |-> Was(key), tag |-> tag,
                val |-> val, writes |-> w.writes, fails |-> w.fails]
    /\ steps' = steps + 1
    /\ durable' = w.file
    /\ since_call' = 0
    /\ since_write' = IF w.writes > 0 THEN 0 ELSE since_write
    /\ UNCHANGED <<dump_policy, pc, writers>>

Return(w, op, key, tag, val) == ReturnArg(w, op, key, NoArg, tag, val)

(* -------------------------------- set ---------------------------------- *)

\* a set that leaves a list of the same name in place
set_keep_list(w, key) == w

\* set: "if self.list_map.contains_key(key) { self.list_map.remove(key); }"
set_evict_list(w, key) ==
    IF key \in DOMAIN w.list_map THEN [w EXCEPT !.list_map = Remove(@, key)] ELSE w

\* a set that keeps the new value when the persist fails
set_no_rollback(w, key, original_value) == w

\* set: the Err arm of "match self.dumpdb()"
set_rollback(w, key, original_value) ==
    IF original_value = None
    THEN [w EXCEPT !.map = Remove(@, key)]
    ELSE [w EXCEPT !.map = Insert(@, key, original_value[1])]

\* PickleDb::set
set(key, value, io) ==
    /\ Ready
    /\ LET w1 == set_evict_list(World, key)
           ser == serialize_data(value)
       IN IF ~ser.ok THEN ReturnArg(w1, "set", key, value, "ErrSer", 0)
          ELSE LET original_value == Get(w1.map, key)
                   w2 == [w1 EXCEPT !.map = Insert(@, key, ser.data)]
                   d == dumpdb(w2, io)
               IN IF d.res = "Ok" THEN ReturnArg(d.w, "set", key, value, "Ok", 0)
                  ELSE ReturnArg(set_rollback(d.w, key, original_value), "set", key, value,
                                 d.res, 0)

(* -------------------------------- rem ---------------------------------- *)

\* a rem that does not put the list back when the persist fails
rem_drop_list(w, key, list) == w

\* rem: "self.map.insert(String::from(key), val)" in the first Err arm
rem_rollback_key(w, key, val) == [w EXCEPT !.map = Insert(@, key, val)]

\* rem: "self.list_map.insert(String::from(key), list)" in the second Err arm
rem_rollback_list(w, key, list) == [w EXCEPT !.list_map = Insert(@, key, list)]

\* a rem that looks for the key in the scalar map only
rem_map_only(key, io1, io2) ==
    /\ Ready
    /\ LET w0 == World
           val == Get(w0.map, key)
           w1 == [w0 EXCEPT !.map = Remove(@, key)]
           d1 == IF val = None THEN [res |-> "Ok", w |-> w1] ELSE dumpdb(w1, io1)
       IN IF d1.res # "Ok"
          THEN Return(rem_rollback_key(d1.w, key, val[1]), "rem", key, d1.res, 0)
          ELSE Return(d1.w, "rem", key, "Ok", IF val # None THEN 1 ELSE 0)

\* PickleDb::rem
rem(key, io1, io2) ==
    /\ Ready
    /\ LET w0 == World
           val == Get(w0.map, key)
           w1 == [w0 EXCEPT !.map = Remove(@, key)]
           d1 == IF val = None THEN [res |-> "Ok", w |-> w1] ELSE dumpdb(w1, io1)
       IN IF d1.res # "Ok"
          THEN Return(rem_rollback_key(d1.w, key, val[1]), "rem", key, d1.res, 0)
          ELSE LET list == Get(d1.w.list_map, key)
                   w2 == [d1.w EXCEPT !.list_map = Remove(@, key)]
                   d2 == IF list = None THEN [res |-> "Ok", w |-> w2] ELSE dumpdb(w2, io2)
               IN IF d2.res # "Ok"
                  THEN Return(rem_rollback_list(d2.w, key, list[1]), "rem", key, d2.res, 0)
                  ELSE Return(d2.w, "rem", key, "Ok",
                              IF val # None \/ list # None THEN 1 ELSE 0)

(* ------------------------------- lcreate ------------------------------- *)

\* an lcreate that leaves a scalar of the same name in the map
lcreate_keep_key(w, name) == w

\* lcreate: "if self.map.contains_key(name) { self.map.remove(name); }"
lcreate_evict_key(w, name) ==
    IF name \in DOMAIN w.map THEN [w EXCEPT !.map = Remove(@, name)] ELSE w

\* an lcreate that leaves a list of the same name as it is
lcreate_keep_list(name, io) ==
    /\ Ready
    /\ LET new_list == <<>>
           w1 == lcreate_evict_key(World, name)
           w2 == IF name \in DOMAIN w1.list_map THEN w1
                 ELSE [w1 EXCEPT !.list_map = Insert(@, name, new_list)]
           d == dumpdb(w2, io)
       IN IF d.res # "Ok" THEN Return(d.w, "lcreate", name, d.res, 0)
          ELSE Return(d.w, "lcreate", name, "Ok", 0)

\* PickleDb::lcreate: "self.dumpdb()?" returns the error as it is
lcreate(name, io) ==
    /\ Ready
    /\ LET new_list == <<>>
           w1 == lcreate_evict_key(World, name)
           w2 == [w1 EXCEPT !.list_map = Insert(@, name, new_list)]
           d == dumpdb(w2, io)
       IN IF d.res # "Ok" THEN Return(d.w, "lcreate", name, d.res, 0)
          ELSE Return(d.w, "lcreate", name, "Ok", 0)

(* ---------------------------- ladd, lextend ---------------------------- *)

\* the sequences a caller hands to lextend
SeqsUpTo(S, n) == UNION {[1..i -> S] : i \in 0..n}

\* an lextend that truncates one element short of the appended ones
lextend_keep_one(w, name, original_len) ==
    [w EXCEPT !.list_map[name] = VecTruncate(@, original_len + 1)]

\* lextend: the Err arm of "match self.dumpdb()"
lextend_rollback(w, name, original_len) ==
    [w EXCEPT !.list_map[name] = VecTruncate(@, original_len)]

\* an lextend that puts the new items in front of the list
lextend_call_prepend(w0, name, seq, io) ==
    IF name \notin DOMAIN w0.list_map THEN [tag |-> "None", w |-> w0]
    ELSE IF \E i \in 1..Len(seq) : ~serialize_data(seq[i]).ok
    THEN [tag |-> "Panic", w |-> w0]
    ELSE LET list == w0.list_map[name]
             original_len == Len(list)
             serialized == [i \in 1..Len(seq) |-> serialize_data(seq[i]).data]
             w1 == [w0 EXCEPT !.list_map[name] = serialized \o list]
             d == dumpdb(w1, io)
         IN IF d.res # "Ok"
            THEN [tag |-> "None", w |-> lextend_rollback(d.w, name, original_len)]
            ELSE [tag |-> "Some", w |-> d.w]

\* the body of PickleDb::lextend on the PickleDb w0: the PickleDb it leaves and
\* what it returns; serialize_data(x).unwrap() panics on a value that does
\* not serialize, before list.extend
lextend_call(w0, name, seq, io) ==
    IF name \notin DOMAIN w0.list_map THEN [tag |-> "None", w |-> w0]
    ELSE IF \E i \in 1..Len(seq) : ~serialize_data(seq[i]).ok
    THEN [tag |-> "Panic", w |-> w0]
    ELSE LET list == w0.list_map[name]
             original_len == Len(list)
             serialized == [i \in 1..Len(seq) |-> serialize_data(seq[i]).data]
             w1 == [w0 EXCEPT !.list_map[name] = list \o serialized]
             d == dumpdb(w1, io)
         IN IF d.res # "Ok"
            THEN [tag |-> "None", w |-> lextend_rollback(d.w, name, original_len)]
            ELSE [tag |-> "Some", w |-> d.w]

\* the body shared by ladd and lextend (ladd calls lextend with one item);
\* arg is the sequence when it was appended
lextend_body(op, name, seq, io) ==
    /\ Ready
    /\ LET r == lextend_call(World, name, seq, io) IN
       IF r.tag = "Panic"
       THEN /\ pc' = "panicked"
            /\ last' = [op |-> op, key |-> name, arg |-> NoArg, was |-> Was(name),
                        tag |-> "Panic", val |-> 0, writes |-> 0, fails |-> 0]
            /\ steps' = steps + 1
            /\ since_call' = 0
            /\ UNCHANGED <<map, list_map, dump_policy, since_dump, file, temp, durable,
                           since_write, writers>>
       ELSE ReturnArg(r.w, op, name, IF r.tag = "Some" THEN seq ELSE NoArg, r.tag, 0)

\* an lextend that reports an empty sequence as a list that is not found
lextend_empty_none(name, seq, io) ==
    /\ name \in DOMAIN list_map => Len(list_map[name]) + Len(seq) <= MaxLen
    /\ IF seq = <<>>
       THEN Ready /\ Return(World, "lextend", name, "None", 0)
       ELSE lextend_body("lextend", name, seq, io)

\* PickleDb::lextend
lextend(name, seq, io) ==
    /\ name \in DOMAIN list_map => Len(list_map[name]) + Len(seq) <= MaxLen
    /\ lextend_body("lextend", name, seq, io)

\* PickleDb::ladd
ladd(name, value, io) ==
    /\ name \in DOMAIN list_map => Len(list_map[name]) + 1 <= MaxLen
    /\ lextend_body("ladd", name, <<value>>, io)

(* ------------------------------ lrem_list ------------------------------ *)

\* PickleDb::llen
llen(lm, name) == IF name \in DOMAIN lm THEN Len(lm[name]) ELSE 0

\* an lrem_list that also removes a scalar stored under the name
lrem_list_and_key(name, io) ==
    /\ Ready
    /\ LET w0 == World
           res == llen(w0.list_map, name)
           list == Get(w0.list_map, name)
           w1 == [w0 EXCEPT !.list_map = Remove(@, name), !.map = Remove(@, name)]
       IN IF list = None THEN Return(w1, "lrem_list", name, "Ok", res)
          ELSE LET d == dumpdb(w1, io)
               IN IF d.res = "Ok" THEN Return(d.w, "lrem_list", name, "Ok", res)
                  ELSE Return([d.w EXCEPT !.list_map = Insert(@, name, list[1])],
                              "lrem_list", name, d.res, 0)

\* PickleDb::lrem_list
lrem_list(name, io) ==
    /\ Ready
    /\ LET w0 == World
           res == llen(w0.list_map, name)
           list == Get(w0.list_map, name)
           w1 == [w0 EXCEPT !.list_map = Remove(@, name)]
       IN IF list = None THEN Return(w1, "lrem_list", name, "Ok", res)
          ELSE LET d == dumpdb(w1, io)
               IN IF d.res = "Ok" THEN Return(d.w, "lrem_list", name, "Ok", res)
                  ELSE Return([d.w EXCEPT !.list_map = Insert(@, name, list[1])],
                              "lrem_list", name, d.res, 0)

(* --------------------------------- lpop -------------------------------- *)

\* an lpop that puts the element back at the end of the list
lpop_push_back(w, name, pos, res) ==
    [w EXCEPT !.list_map[name] = Append(@, res)]

\* lpop: "same_list.insert(pos, res)" in the Err arm
lpop_rollback(w, name, pos, res) ==
    [w EXCEPT !.list_map[name] = VecInsert(@, pos, res)]

\* PickleDb::lpop::<V>; val is the popped element when it decoded as V, arg.v
\* is pos
lpop(name, pos, ty, io) ==
    /\ Ready
    /\ LET w0 == World
           arg == [ty |-> "", v |-> pos]
       IN
       IF name \notin DOMAIN w0.list_map THEN ReturnArg(w0, "lpop", name, arg, "None", 0)
       ELSE IF ~(pos < Len(w0.list_map[name]))
       THEN ReturnArg(w0, "lpop", name, arg, "None", 0)
       ELSE LET res == w0.list_map[name][pos + 1]
                w1 == [w0 EXCEPT !.list_map[name] = VecRemove(@, pos)]
                d == dumpdb(w1, io)
            IN IF d.res = "Ok"
               THEN LET v == deserialize_data(res, ty)
                    IN ReturnArg(d.w, "lpop", name, arg, IF v = None THEN "None" ELSE "Some",
                                 IF v = None THEN 0 ELSE v[1].v)
               ELSE ReturnArg(lpop_rollback(d.w, name, pos, res), "lpop", name, arg,
                              "None", 0)

(* ------------------------------ lrem_value ----------------------------- *)

\* a position that finds the last matching element, 0-based
position_last(list, x) ==
    IF \E i \in 1..Len(list) : list[i] = x
    THEN Some((CHOOSE i \in 1..Len(list) :
                    list[i] = x /\ \A j \in (i + 1)..Len(list) : list[j] # x) - 1)
    ELSE None

\* a position that falls back to the front of the list when nothing matches
position_or_front(list, x) ==
    IF \E i \in 1..Len(list) : list[i] = x
    THEN Some((CHOOSE i \in 1..Len(list) : list[i] = x /\ \A j \in 1..(i - 1) : list[j] # x) - 1)
    ELSE IF list # <<>> THEN Some(0) ELSE None

\* list.iter().position(|x| *x == serialized_value), 0-based
position(list, x) ==
    IF \E i \in 1..Len(list) : list[i] = x
    THEN Some((CHOOSE i \in 1..Len(list) : list[i] = x /\ \A j \in 1..(i - 1) : list[j] # x) - 1)
    ELSE None

\* an lrem_value that puts the element back at the front of the list
lrem_value_push_front(w, name, pos, serialized_value) ==
    [w EXCEPT !.list_map[name] = VecInsert(@, 0, serialized_value)]

\* lrem_value: "same_list.insert(pos, serialized_value)" in the Err arm
lrem_value_rollback(w, name, pos, serialized_value) ==
    [w EXCEPT !.list_map[name] = VecInsert(@, pos, serialized_value)]

\* PickleDb::lrem_value; val is 1 for Ok(true), 0 for Ok(false)
lrem_value(name, value, io) ==
    /\ Ready
    /\ LET w0 == World IN
       IF name \notin DOMAIN w0.list_map
       THEN ReturnArg(w0, "lrem_value", name, value, "Ok", 0)
       ELSE LET ser == serialize_data(value) IN
            IF ~ser.ok THEN ReturnArg(w0, "lrem_value", name, value, "ErrSer", 0)
            ELSE LET serialized_value == ser.data
                     found == position(w0.list_map[name], serialized_value)
                 IN IF found = None THEN ReturnArg(w0, "lrem_value", name, value, "Ok", 0)
                    ELSE LET pos == found[1]
                             w1 == [w0 EXCEPT !.list_map[name] = VecRemove(@, pos)]
                             d == dumpdb(w1, io)
                         IN IF d.res = "Ok"
                            THEN ReturnArg(d.w, "lrem_value", name, value, "Ok", 1)
                            ELSE ReturnArg(lrem_value_rollback(d.w, name, pos,
                                                               serialized_value),
                                           "lrem_value", name, value, d.res, 0)

(* ------------------------------- queries ------------------------------- *)

\* PickleDb::get::<V>: the value of a key decoded as V, None when the key is
\* not in the map or its bytes are not a V
get(key, ty) ==
    IF key \in DOMAIN map THEN deserialize_data(map[key], ty) ELSE None

\* PickleDb::exists
exists(key) == Get(map, key) # None \/ Get(list_map, key) # None

\* the keys of a HashMap in the order its iterator yields them: one of the
\* orders, the hasher deciding which
KeysOf(m) ==
    CHOOSE s \in [1..Cardinality(DOMAIN m) -> DOMAIN m] :
        \A i, j \in DOMAIN s : i # j => s[i] # s[j]

\* a get_all that lists the keys of the scalar map only
get_all_scalars == KeysOf(map)

\* PickleDb::get_all: the keys of map, then those of list_map
get_all == KeysOf(map) \o KeysOf(list_map)

\* PickleDb::total_keys
total_keys == Cardinality(DOMAIN map) + Cardinality(DOMAIN list_map)

\* PickleDb::lexists
lexists(name) == Get(list_map, name) # None

\* an lget that reads the last element when pos is past the end
lget_clamped(name, pos, ty) ==
    IF name \in DOMAIN list_map /\ list_map[name] # <<>>
    THEN IF pos < Len(list_map[name])
         THEN deserialize_data(list_map[name][pos + 1], ty)
         ELSE deserialize_data(list_map[name][Len(list_map[name])], ty)
    ELSE None

\* PickleDb::lget::<V>; pos is 0-based, list.get(pos) is None past the end
lget(name, pos, ty) ==
    IF name \in DOMAIN list_map
    THEN IF pos < Len(list_map[name])
         THEN deserialize_data(list_map[name][pos + 1], ty)
         ELSE None
    ELSE None

(* ------------------------- dump(), drop, the clock --------------------- *)

\* a call of the public PickleDb::dump
dump_call(io) ==
    /\ Ready
    /\ LET d == dump(World, io) IN Return(d.w, "dump", "", d.res, 0)

\* a Drop that dumps under every policy but NeverDump
drop_unless_never(io) ==
    /\ pc \in {"ready", "panicked"}
    /\ LET d == IF dump_policy # "NeverDump"
                THEN dump(World, io)
                ELSE [res |-> "Ok", w |-> World]
       IN /\ map' = d.w.map
          /\ list_map' = d.w.list_map
          /\ since_dump' = d.w.since_dump
          /\ file' = d.w.file
          /\ temp' = d.w.temp
          /\ durable' = d.w.file
          /\ last' = [op |-> "drop", key |-> "", arg |-> NoArg, was |-> "absent", tag |-> "Ok",
                      val |-> 0, writes |-> d.w.writes, fails |-> d.w.fails]
          /\ since_write' = IF d.w.writes > 0 THEN 0 ELSE since_write
    /\ pc' = "dropped"
    /\ UNCHANGED <<dump_policy, steps, since_call, writers>>

\* a Drop that does not dump
drop_without_dump(io) ==
    /\ pc \in {"ready", "panicked"}
    /\ last' = [op |-> "drop", key |-> "", arg |-> NoArg, was |-> "absent", tag |-> "Ok",
                val |-> 0, writes |-> 0, fails |-> 0]
    /\ pc' = "dropped"
    /\ UNCHANGED <<map, list_map, dump_policy, since_dump, file, temp, steps, durable,
                   since_call, since_write, writers>>

\* Drop for PickleDb, also run when a panic unwinds: "let _ = self.dump()"
drop(io) ==
    /\ pc \in {"ready", "panicked"}
    /\ LET d == IF dump_policy \notin {"NeverDump", "DumpUponRequest"}
                THEN dump(World, io)
                ELSE [res |-> "Ok", w |-> World]
       IN /\ map' = d.w.map
          /\ list_map' = d.w.list_map
          /\ since_dump' = d.w.since_dump
          /\ file' = d.w.file
          /\ temp' = d.w.temp
          /\ durable' = d.w.file
          /\ last' = [op |-> "drop", key |-> "", arg |-> NoArg, was |-> "absent", tag |-> "Ok",
                      val |-> 0, writes |-> d.w.writes, fails |-> d.w.fails]
          /\ since_write' = IF d.w.writes > 0 THEN 0 ELSE since_write
    /\ pc' = "dropped"
    /\ UNCHANGED <<dump_policy, steps, since_call, writers>>

\* some time passes between two calls (it is only read under PeriodicDump)
Tick ==
    /\ Ready
    /\ dump_policy = "PeriodicDump"
    /\ since_dump < MaxSince
    /\ \E t \in (since_dump + 1)..MaxSince :
            /\ since_dump' = t
            /\ since_call' = since_call + (t - since_dump)
            /\ since_write' = IF since_write + (t - since_dump) < MaxSince
                              THEN since_write + (t - since_dump) ELSE MaxSince
    /\ steps' = steps + 1
    /\ UNCHANGED <<map, list_map, dump_policy, file, temp, pc, last, durable, writers>>

(* ------------------------------ the program ---------------------------- *)

\* the file-system outcomes to consider for a call: all of them when the call
\* can reach fs::write, one when it cannot
AutoIo == IF dump_policy = "AutoDump" \/ (dump_policy = "PeriodicDump" /\ since_dump > Duration)
          THEN IoOutcomes ELSE {"ok"}
DumpIo == IF dump_policy = "NeverDump" THEN {"ok"} ELSE IoOutcomes
DropIo == IF dump_policy \in {"NeverDump", "DumpUponRequest"} THEN {"ok"} ELSE IoOutcomes

\* the sequences handed to lextend: those of serializable items, and those
\* whose last item does not serialize (collect() panics at the first such
\* item, before list.extend, wherever it stands)
ExtendSeqs ==
    SeqsUpTo(Values, MaxSeq)
        \cup {Append(s, BadValue) : s \in SeqsUpTo(Values, MaxSeq - 1)}

\* a call of one of the eight mutators
Mutations ==
    \/ \E key \in Keys, value \in Values \cup {BadValue}, io \in AutoIo : set(key, value, io)
    \/ \E key \in Keys, io1 \in AutoIo, io2 \in AutoIo : rem(key, io1, io2)
    \/ \E name \in Keys, io \in AutoIo : lcreate(name, io)
    \/ \E name \in Keys, value \in Values \cup {BadValue}, io \in AutoIo : ladd(name, value, io)
    \/ \E name \in Keys, seq \in ExtendSeqs, io \in AutoIo : lextend(name, seq, io)
    \/ \E name \in Keys, io \in AutoIo : lrem_list(name, io)
    \/ \E name \in Keys, pos \in 0..MaxLen, ty \in Types, io \in AutoIo : lpop(name, pos, ty, io)
    \/ \E name \in Keys, value \in Values \cup {BadValue}, io \in AutoIo :
            lrem_value(name, value, io)

Next ==
    \/ Mutations
    \/ \E io \in DumpIo : dump_call(io)
    \/ \E io \in DropIo : drop(io)
    \/ Tick

Spec == Init /\ [][Next]_vars

(* ------------- dump() statement by statement, with crashes ------------- *)

\* what a dump() in progress has encoded: the maps do not change during it
ser_db == serialize_db(map, list_map).data

InDump(op, tag, writes, fails) ==
    [op |-> op, key |-> "", arg |-> NoArg, was |-> "absent", tag |-> tag, val |-> 0,
     writes |-> writes, fails |-> fails]

\* dump: the policy test and serialize_db
dump_begin ==
    /\ Ready
    /\ steps' = steps + 1
    /\ IF dump_policy = "NeverDump"
       THEN /\ last' = InDump("dump", "Ok", 0, 0)
            /\ pc' = pc
       ELSE /\ last' = InDump("dump", "Running", 0, 0)
            /\ pc' = "encoded"
    /\ UNCHANGED <<map, list_map, dump_policy, since_dump, file, temp, durable, since_call,
                   since_write, writers>>

\* dump returns Err(Error::new(ErrorCode::Io(err)))
dump_fail ==
    /\ pc' = "ready"
    /\ last' = InDump("dump", "ErrIo", 0, 1)
    /\ durable' = file'
    /\ UNCHANGED <<map, list_map, dump_policy, since_dump, steps, since_call, since_write, writers>>

\* a dump that opens the database file itself for writing
dump_create_in_place(ok) ==
    /\ pc = "encoded"
    /\ IF ok
       THEN /\ file' = Some(PartialContent)
            /\ pc' = "writing"
            /\ UNCHANGED <<map, list_map, dump_policy, since_dump, temp, last, steps, durable,
                           since_call, since_write, writers>>
       ELSE /\ UNCHANGED <<file, temp>>
            /\ dump_fail

\* fs::write, first half: File::create makes the temporary file, or empties it
dump_create(ok) ==
    /\ pc = "encoded"
    /\ IF ok
       THEN /\ temp' = Some(PartialContent)
            /\ pc' = "writing"
            /\ UNCHANGED <<map, list_map, dump_policy, since_dump, file, last, steps, durable,
                           since_call, since_write, writers>>
       ELSE /\ UNCHANGED <<file, temp>>
            /\ dump_fail

\* fs::write, second half: write_all puts ser_db into the temporary file, or
\* stops part of the way
dump_write(ok) ==
    /\ pc = "writing"
    /\ IF ok
       THEN /\ temp' = Some(ser_db)
            /\ pc' = "written"
            /\ UNCHANGED <<map, list_map, dump_policy, since_dump, file, last, steps, durable,
                           since_call, since_write, writers>>
       ELSE /\ UNCHANGED <<file, temp>>
            /\ dump_fail

\* fs::rename: the temporary file replaces the database file in one step
dump_rename(ok) ==
    /\ pc = "written"
    /\ IF ok /\ temp # None
       THEN /\ file' = temp
            /\ temp' = None
            /\ pc' = "renamed"
            /\ UNCHANGED <<map, list_map, dump_policy, since_dump, last, steps, durable,
                           since_call, since_write, writers>>
       ELSE /\ UNCHANGED <<file, temp>>
            /\ dump_fail

\* dump: last_dump = Instant::now() under PeriodicDump, then Ok(())
dump_return ==
    /\ pc = "renamed"
    /\ pc' = "ready"
    /\ since_dump' = IF dump_policy = "PeriodicDump" THEN 0 ELSE since_dump
    /\ last' = InDump("dump", "Ok", 1, 0)
    /\ durable' = file
    /\ since_write' = 0
    /\ UNCHANGED <<map, list_map, dump_policy, file, temp, steps, since_call, writers>>

\* the process stops inside dump(); tag keeps the statement it stopped after
crash ==
    /\ pc \in {"encoded", "writing", "written", "renamed"}
    /\ pc' = "crashed"
    /\ last' = InDump("crash", pc, 0, 0)
    /\ UNCHANGED <<map, list_map, dump_policy, since_dump, file, temp, steps, durable,
                   since_call, since_write, writers>>

InitCrash == Init /\ dump_policy = "DumpUponRequest"

NextCrash ==
    \/ Mutations
    \/ dump_begin
    \/ \E ok \in BOOLEAN : dump_create(ok)
    \/ \E ok \in BOOLEAN : dump_write(ok)
    \/ \E ok \in BOOLEAN : dump_rename(ok)
    \/ dump_return
    \/ crash

SpecCrash == InitCrash /\ [][NextCrash]_vars

(* ----------------------- load and load_read_only ---------------------- *)

\* PickleDb::load of the file as it is: fs::read, then deserialize_db
load(f) ==
    IF f = None THEN [res |-> "ErrIo", map |-> EmptyMap, list_map |-> EmptyMap]
    ELSE LET maps_from_file == deserialize_db(f[1]) IN
         IF ~maps_from_file.ok
         THEN [res |-> "ErrSer", map |-> EmptyMap, list_map |-> EmptyMap]
         ELSE [res |-> "Ok", map |-> maps_from_file.map, list_map |-> maps_from_file.list_map]

\* database files an earlier PickleDb left at the path: an empty database, and
\* one with a key and a list of two elements
StoredFiles ==
    {serialize_db(EmptyMap, EmptyMap).data,
     serialize_db(Insert(EmptyMap, "a", serialize_data(I32(1)).data),
                  Insert(EmptyMap, "b", <<serialize_data(I32(1)).data,
                                          serialize_data(Str(1)).data>>)).data}

LoadCall == [NoCall EXCEPT !.op = "load"]

\* the state after PickleDb::load(path, policy, Json) returned Ok on the file f
Loaded(f, policy) ==
    /\ file = f
    /\ load(f).res = "Ok"
    /\ map = load(f).map
    /\ list_map = load(f).list_map
    /\ dump_policy = policy
    /\ since_dump = 0
    /\ temp = None
    /\ pc = "ready"
    /\ last = LoadCall
    /\ steps = 0
    /\ durable = f
    /\ since_call = 0
    /\ since_write = 0
    /\ writers = NoWriters

\* a PickleDb that never dumps: new() with NeverDump, or load_read_only
InitNever ==
    \/ Init /\ dump_policy = "NeverDump"
    \/ \E f \in StoredFiles : Loaded(Some(f), "NeverDump")

NextNever ==
    \/ Mutations
    \/ \E io \in DumpIo : dump_call(io)
    \/ \E io \in DropIo : drop(io)

SpecNever == InitNever /\ [][NextNever]_vars

(* --------------------------- load as a call ---------------------------- *)

\* what fs::read does to one load(): it reads the file, or fails on a file
\* that is there
ReadOutcomes == {"ok", "read_fail"}

\* the path before any PickleDb is made for it: no file, a file that is not a
\* database of the serialization method, or a stored database
PathFiles == {None, Some(PartialContent)} \cup {Some(f) : f \in StoredFiles}

\* no PickleDb exists yet; the variables of the PickleDb hold placeholders
InitLoad ==
    /\ map = EmptyMap
    /\ list_map = EmptyMap
    /\ dump_policy = "NeverDump"
    /\ since_dump = 0
    /\ file \in PathFiles
    /\ temp = None
    /\ pc = "unloaded"
    /\ last = [NoCall EXCEPT !.op = "none"]
    /\ steps = 0
    /\ durable = file
    /\ since_call = 0
    /\ since_write = 0
    /\ writers = NoWriters

\* a call of PickleDb::load(path, policy, Json): Ok(PickleDb) or Err
load_call(policy, io) ==
    /\ pc = "unloaded"
    /\ steps < MaxSteps
    /\ steps' = steps + 1
    /\ LET db == IF io = "read_fail"
                 THEN [res |-> "ErrIo", map |-> EmptyMap, list_map |-> EmptyMap]
                 ELSE load(file)
       IN /\ last' = [LoadCall EXCEPT !.tag = db.res]
          /\ IF db.res = "Ok"
             THEN /\ map' = db.map
                  /\ list_map' = db.list_map
                  /\ dump_policy' = policy
                  /\ pc' = "ready"
             ELSE UNCHANGED <<map, list_map, dump_policy, pc>>
    /\ UNCHANGED <<since_dump, file, temp, durable, since_call, since_write, writers>>

NextLoad ==
    \/ \E policy \in Policies, io \in ReadOutcomes : load_call(policy, io)
    \/ Mutations
    \/ \E io \in DumpIo : dump_call(io)
    \/ \E io \in DropIo : drop(io)

SpecLoad == InitLoad /\ [][NextLoad]_vars

(* --------------------------- queries as calls -------------------------- *)

\* the return of a method that takes &self: the result is recorded and the
\* PickleDb and the files are as they were
QueryReturn(op, key, arg, tag, val) ==
    /\ last' = [op |-> op, key |-> key, arg |-> arg, was |-> Was(key),
                tag |-> tag, val |-> val, writes |-> 0, fails |-> 0]
    /\ steps' = steps + 1
    /\ since_call' = 0
    /\ UNCHANGED <<map, list_map, dump_policy, since_dump, file, temp, pc, durable,
                   since_write, writers>>

\* a call of get::<V>(key); val is the decoded value
get_call(key, ty) ==
    /\ Ready
    /\ LET v == get(key, ty)
           arg == [ty |-> ty, v |-> 0]
       IN IF v = None THEN QueryReturn("get", key, arg, "None", 0)
          ELSE QueryReturn("get", key, arg, "Some", v[1].v)

\* a call of exists(key); val is 1 for true
exists_call(key) ==
    /\ Ready
    /\ QueryReturn("exists", key, NoArg, "Ok", IF exists(key) THEN 1 ELSE 0)

\* a call of lexists(name); val is 1 for true
lexists_call(name) ==
    /\ Ready
    /\ QueryReturn("lexists", name, NoArg, "Ok", IF lexists(name) THEN 1 ELSE 0)

\* a call of llen(name); val is the length
llen_call(name) ==
    /\ Ready
    /\ QueryReturn("llen", name, NoArg, "Ok", llen(list_map, name))

\* a call of lget::<V>(name, pos); arg.v is pos, val is the decoded element
lget_call(name, pos, ty) ==
    /\ Ready
    /\ LET v == lget(name, pos, ty)
           arg == [ty |-> ty, v |-> pos]
       IN IF v = None THEN QueryReturn("lget", name, arg, "None", 0)
          ELSE QueryReturn("lget", name, arg, "Some", v[1].v)

\* a liter that yields nothing for a list that does not exist
liter_empty(name) ==
    /\ Ready
    /\ QueryReturn("liter", name, NoArg, "Ok", llen(list_map, name))

\* PickleDb::liter: the None arm is panic!("List '{}' doesn't exist", name);
\* val is the number of items the iterator yields
liter(name) ==
    /\ Ready
    /\ IF name \in DOMAIN list_map
       THEN QueryReturn("liter", name, NoArg, "Ok", Len(list_map[name]))
       ELSE /\ pc' = "panicked"
            /\ last' = [op |-> "liter", key |-> name, arg |-> NoArg, was |-> Was(name),
                        tag |-> "Panic", val |-> 0, writes |-> 0, fails |-> 0]
            /\ steps' = steps + 1
            /\ since_call' = 0
            /\ UNCHANGED <<map, list_map, dump_policy, since_dump, file, temp, durable,
                           since_write, writers>>

\* database files for the queries: those of StoredFiles, and one whose list
\* holds the same element twice around another one
QueryFiles ==
    StoredFiles \cup
    {serialize_db(Insert(EmptyMap, "a", serialize_data(Str(1)).data),
                  Insert(EmptyMap, "b", <<serialize_data(I32(1)).data,
                                          serialize_data(Str(1)).data,
                                          serialize_data(I32(1)).data>>)).data}

\* a DumpUponRequest PickleDb made by new() or by load() of one of QueryFiles
InitQuery ==
    \/ Init /\ dump_policy = "DumpUponRequest"
    \/ \E f \in QueryFiles : Loaded(Some(f), "DumpUponRequest")

\* a call of one of the methods that take &self
Queries ==
    \/ \E key \in Keys, ty \in Types : get_call(key, ty)
    \/ \E key \in Keys : exists_call(key)
    \/ \E name \in Keys : lexists_call(name)
    \/ \E name \in Keys : llen_call(name)
    \/ \E name \in Keys, pos \in 0..(MaxLen + 1), ty \in Types : lget_call(name, pos, ty)
    \/ \E name \in Keys : liter(name)

\* the drop also runs when a panic unwinds
NextQuery ==
    \/ Mutations
    \/ Queries
    \/ \E io \in DropIo : drop(io)

SpecQuery == InitQuery /\ [][NextQuery]_vars

\* an AutoDump PickleDb loaded from the file whose list holds an element twice
InitDup == \E f \in QueryFiles \ StoredFiles : Loaded(Some(f), "AutoDump")

NextDup == Mutations

SpecDup == InitDup /\ [][NextDup]_vars

(* ------------------------- PickleDbListExtender ------------------------ *)

\* a call panicked after leaving the PickleDb and the files as in w
Panicked(w, op, key, arg) ==
    /\ map' = w.map
    /\ list_map' = w.list_map
    /\ since_dump' = w.since_dump
    /\ file' = w.file
    /\ temp' = w.temp
    /\ last' = [op |-> op, key |-> key, arg |-> arg, was |-> Was(key), tag |-> "Panic",
                val |-> 0, writes |-> w.writes, fails |-> w.fails]
    /\ steps' = steps + 1
    /\ durable' = w.file
    /\ since_call' = 0
    /\ since_write' = IF w.writes > 0 THEN 0 ELSE since_write
    /\ pc' = "panicked"
    /\ UNCHANGED <<dump_policy, writers>>

\* the caller holds a PickleDbListExtender { db, list_name }: the last call
\* returned one (lcreate Ok, ladd or lextend Some) and, the extender borrowing
\* the PickleDb, no other call was made since; list_name is last.key
HasExtender ==
    \/ last.op = "lcreate" /\ last.tag = "Ok"
    \/ last.op \in {"ladd", "lextend", "extender_ladd", "extender_lextend"}
            /\ last.tag = "Some"

\* an extender whose unwrap() is preceded by nothing: a None of
\* PickleDb::lextend is returned as if the items had been added
extender_swallow(op, seq, io) ==
    /\ Ready
    /\ HasExtender
    /\ Len(list_map[last.key]) + Len(seq) <= MaxLen
    /\ LET r == lextend_call(World, last.key, seq, io) IN
       IF r.tag = "Panic" THEN Panicked(r.w, op, last.key, seq)
       ELSE ReturnArg(r.w, op, last.key, seq, "Some", 0)

\* self.db.lextend(&self.list_name, seq).unwrap(): a None panics
extender_call(op, seq, io) ==
    /\ Ready
    /\ HasExtender
    /\ Len(list_map[last.key]) + Len(seq) <= MaxLen
    /\ LET r == lextend_call(World, last.key, seq, io) IN
       IF r.tag = "Some" THEN ReturnArg(r.w, op, last.key, seq, "Some", 0)
       ELSE Panicked(r.w, op, last.key, seq)

\* PickleDbListExtender::ladd
extender_ladd(value, io) == extender_call("extender_ladd", <<value>>, io)

\* PickleDbListExtender::lextend
extender_lextend(seq, io) == extender_call("extender_lextend", seq, io)

\* an AutoDump PickleDb made by new()
InitExtender == Init /\ dump_policy = "AutoDump"

NextExtender ==
    \/ Mutations
    \/ \E value \in Values \cup {BadValue}, io \in AutoIo : extender_ladd(value, io)
    \/ \E seq \in ExtendSeqs, io \in AutoIo : extender_lextend(seq, io)
    \/ \E io \in DropIo : drop(io)

SpecExtender == InitExtender /\ [][NextExtender]_vars

(* ------------------ two PickleDb instances on one path ----------------- *)

\* instance 1 is the PickleDb of map and list_map, instance 2 another one whose
\* encoding is writers.db2
Instances == {1, 2}
Encoding(i) == IF i = 1 THEN ser_db ELSE writers.db2

\* where format!("{}.temp.{}", db_file_path, secs) points for an instance: the
\* two paths are one when both dump() read the same second
TempPath(i) == IF i = 1 \/ writers.same THEN "temp" ELSE "temp2"

\* the file at a path
FileAt(path) ==
    IF path = "file" THEN file ELSE IF path = "temp" THEN temp ELSE writers.temp2

\* the number of bytes of an encoded database
Bytes(c) ==
    LET SeqBytes(l) ==
            LET f[i \in 0..Len(l)] == IF i = 0 THEN 2 ELSE f[i - 1] + Len(l[i].utf8) + 1
            IN f[Len(l)]
        ScalarBytes(S) ==
            LET g[T \in SUBSET S] ==
                    IF T = {} THEN 0
                    ELSE LET e == CHOOSE e \in T : TRUE
                         IN 4 + Len(e[2].utf8) + g[T \ {e}]
            IN g[S]
        ListBytes(S) ==
            LET g[T \in SUBSET S] ==
                    IF T = {} THEN 0
                    ELSE LET e == CHOOSE e \in T : TRUE
                         IN 4 + SeqBytes(e[2]) + g[T \ {e}]
            IN g[S]
    IN 5 + ScalarBytes(c.scalars) + ListBytes(c.lists)

\* what a file holds after write_all put new at its start: new alone when the
\* file was empty or not longer than new, and otherwise new followed by the
\* end of what was there, which is no whole document
Overwritten(old, new) ==
    IF old = PartialContent \/ old = new THEN new
    ELSE IF old.complete /\ Bytes(old) <= Bytes(new) THEN new
    ELSE [complete |-> FALSE, scalars |-> new.scalars \cup old.scalars,
          lists |-> new.lists \cup old.lists]

\* the three files after content c is put at a path
PutAt(path, c) ==
    /\ file' = IF path = "file" THEN c ELSE file
    /\ temp' = IF path = "temp" THEN c ELSE temp

\* fs::write, first half: File::create opens the file at the temporary path,
\* emptying it when it exists
race_create(i) ==
    /\ writers.pc[i] = "idle"
    /\ PutAt(TempPath(i), Some(PartialContent))
    /\ writers' = [writers EXCEPT !.pc[i] = "writing", !.at[i] = TempPath(i),
                                  !.temp2 = IF TempPath(i) = "temp2"
                                            THEN Some(PartialContent) ELSE @]
    /\ UNCHANGED <<map, list_map, dump_policy, since_dump, pc, last, steps, durable,
                   since_call, since_write>>

\* fs::write, second half: write_all through the open handle, which follows
\* the file when another instance has renamed it, and closes it
race_write(i) ==
    /\ writers.pc[i] = "writing"
    /\ LET at == writers.at[i]
           c == IF at = "gone" THEN None
                ELSE Some(Overwritten(FileAt(at)[1], Encoding(i)))
       IN /\ PutAt(at, c)
          /\ writers' = [writers EXCEPT !.pc[i] = "written", !.at[i] = "none",
                                        !.temp2 = IF at = "temp2" THEN c ELSE @]
    /\ UNCHANGED <<map, list_map, dump_policy, since_dump, pc, last, steps, durable,
                   since_call, since_write>>

\* fs::rename(temp_file_path, &self.db_file_path): the file at the temporary
\* path replaces the database file, open handles following their file; Err
\* when no file is at the temporary path any more
race_rename(i) ==
    /\ writers.pc[i] = "written"
    /\ IF FileAt(TempPath(i)) = None
       THEN /\ writers' = [writers EXCEPT !.pc[i] = "failed"]
            /\ UNCHANGED <<file, temp>>
       ELSE /\ file' = FileAt(TempPath(i))
            /\ temp' = IF TempPath(i) = "temp" THEN None ELSE temp
            /\ writers' = [writers EXCEPT
                    !.pc[i] = "done",
                    !.temp2 = IF TempPath(i) = "temp2" THEN None ELSE @,
                    !.at = [j \in Instances |->
                                IF writers.at[j] = "file" THEN "gone"
                                ELSE IF writers.at[j] = TempPath(i) THEN "file"
                                ELSE writers.at[j]]]
    /\ UNCHANGED <<map, list_map, dump_policy, since_dump, pc, last, steps, durable,
                   since_call, since_write>>

\* two PickleDb instances loaded from files, or made by new(), about to dump
\* to one path that holds nothing or an earlier database
InitRace ==
    /\ \E f \in StoredFiles : map = load(Some(f)).map /\ list_map = load(Some(f)).list_map
    /\ dump_policy = "DumpUponRequest"
    /\ since_dump = 0
    /\ file \in {None} \cup {Some(f) : f \in QueryFiles}
    /\ temp = None
    /\ pc = "ready"
    /\ last = NoCall
    /\ steps = 0
    /\ durable = file
    /\ since_call = 0
    /\ since_write = 0
    /\ \E same \in BOOLEAN, f \in QueryFiles :
            writers = [NoWriters EXCEPT !.same = same, !.db2 = f]

NextRace ==
    \/ \E i \in Instances : race_create(i)
    \/ \E i \in Instances : race_write(i)
    \/ \E i \in Instances : race_rename(i)

SpecRace == InitRace /\ [][NextRace]_vars

(* ---------------------- load of any database file ---------------------- *)

\* the files deserialize_db decodes: those of StoredFiles, and one that has
\* the key "a" in its first object and in its second
DecodableFiles ==
    StoredFiles \cup
    {serialize_db(Insert(EmptyMap, "a", serialize_data(I32(1)).data),
                  Insert(EmptyMap, "a", <<serialize_data(I32(1)).data>>)).data}

\* an AutoDump PickleDb returned by load() of one of DecodableFiles
InitLoaded == \E f \in DecodableFiles : Loaded(Some(f), "AutoDump")

NextLoaded == Mutations

SpecLoaded == InitLoaded /\ [][NextLoaded]_vars

(* ------------------------- PeriodicDump over time ---------------------- *)

\* a PickleDb made by new() with PeriodicDump(Duration) some time ago, on a
\* path with no file, and not used since
InitPeriodic ==
    /\ map = EmptyMap
    /\ list_map = EmptyMap
    /\ dump_policy = "PeriodicDump"
    /\ \E t \in 0..MaxSince : since_dump = t /\ since_call = t /\ since_write = t
    /\ writers = NoWriters
    /\ file = None
    /\ temp = None
    /\ pc = "ready"
    /\ last = NoCall
    /\ steps = 0
    /\ durable = None

SpecPeriodic == InitPeriodic /\ [][Next]_vars

(* ------------------------------ the claims ----------------------------- *)

Mutators == {"set", "rem", "lcreate", "ladd", "lextend", "lpop", "lrem_value", "lrem_list"}

\* the step is a call of op: a call counts a step, leaves its name in last and
\* restarts the time since the most recent call (a pause counts a step too)
Called(op) == steps' = steps + 1 /\ since_call' = 0 /\ last'.op = op

\* the file loads, and loads as the maps m and lm
FileHolds(f, m, lm) ==
    LET db == load(f) IN db.res = "Ok" /\ db.map = m /\ db.list_map = lm

\* C1: for a PickleDb made by new(), after any sequence of calls under any dump
\* policy, with persists succeeding or failing, no key is in both the scalar
\* map and the list map.
C1_Partition == (DOMAIN map) \cap (DOMAIN list_map) = {}

\* C1 witness: a set has taken over a name that was a list, or an lcreate a
\* name that was a scalar key
C1_Witness ==
    \/ last.op = "set" /\ last.was = "list" /\ last.tag = "Ok" /\ last.key \in DOMAIN map
    \/ last.op = "lcreate" /\ last.was = "scalar" /\ last.key \in DOMAIN list_map

\* C2 (as claimed): under AutoDump, once the file has been written, between
\* calls the in-memory maps equal the maps decoded from the file, whatever
\* calls failed.
C2_MemoryEqualsFile ==
    (dump_policy = "AutoDump" /\ pc = "ready" /\ file # None)
        => FileHolds(file, map, list_map)

Effective ==
    LET op == last'.op
        key == last'.key
    IN \/ op \in {"set", "lcreate"} /\ last'.tag = "Ok"
       \/ op \in {"rem", "lrem_value"} /\ last'.tag = "Ok" /\ last'.val = 1
       \/ op \in {"ladd", "lextend"} /\ last'.tag = "Some"
       \/ op = "lrem_list" /\ last'.tag = "Ok" /\ last'.was = "list"
       \/ op = "lpop" /\ last'.was = "list" /\ Len(list_map'[key]) = Len(list_map[key]) - 1

C5_DumpLoadRoundTrip ==
    (last.op = "dump" /\ last.tag = "Ok" /\ dump_policy # "NeverDump")
        => FileHolds(file, map, list_map)

\* C5 witness: a successful dump() of a state with a list of two different
\* elements, whose order the file has to keep
C5_Witness ==
    /\ last.op = "dump" /\ last.tag = "Ok" /\ last.writes = 1
    /\ \E name \in DOMAIN list_map :
            Len(list_map[name]) = 2 /\ list_map[name][1] # list_map[name][2]

\* C6: when set(key, value) triggers a persist that fails, set returns an error
\* and the scalar map entry of key is what it was before the call: the prior
\* encoded value, or absent.
C6_SetRollback ==
    [][(Called("set") /\ last'.fails > 0) =>
            /\ last'.tag = "ErrIo"
            /\ Get(map', last'.key) = Get(map, last'.key)
      ]_vars

\* C6 witness: a set on a key that held a value failed in its persist, and the
\* key still holds a value
C6_Witness ==
    /\ last.op = "set" /\ last.fails > 0 /\ last.was = "scalar"
    /\ last.key \in DOMAIN map

\* C7 (as claimed): when set(key, value) returns an error and key named a list
\* before the call, the in-memory state after the call equals the state
\* before it.
C7_SetErrorKeepsList ==
    [][(Called("set") /\ last'.tag \in {"ErrSer", "ErrIo"} /\ last'.was = "list") =>
            (map' = map /\ list_map' = list_map)
      ]_vars

\* C8 (as claimed): when lcreate(name) triggers a persist that fails, lcreate
\* returns an error and the in-memory state equals the state before the call.
C8_LcreateRollback ==
    [][(Called("lcreate") /\ last'.fails > 0) =>
            (last'.tag = "ErrIo" /\ map' = map /\ list_map' = list_map)
      ]_vars

\* C9: when rem(key) or lrem_list(name) removes an entry and the triggered
\* persist fails, the call returns an error and the removed entry is present
\* again unchanged (a list with all its elements in their order).
C9_RemoveRollback ==
    [][((Called("rem") \/ Called("lrem_list")) /\ last'.fails > 0) =>
            (last'.tag = "ErrIo" /\ map' = map /\ list_map' = list_map)
      ]_vars

\* C9 witness: a rem of a list of two elements failed in its persist and the
\* list is there with its two elements
C9_Witness ==
    /\ last.op = "rem" /\ last.fails > 0 /\ last.was = "list"
    /\ last.key \in DOMAIN list_map
    /\ Len(list_map[last.key]) = 2

\* C10: when ladd(name, v) or lextend(name, seq) on an existing list triggers a
\* persist that fails, the call returns None and the list holds exactly the
\* elements it held before the call, however many were appended.
C10_ExtendRollback ==
    [][((Called("ladd") \/ Called("lextend")) /\ last'.fails > 0) =>
            (last'.tag = "None" /\ map' = map /\ list_map' = list_map)
      ]_vars

\* C10 witness: an lextend on a list that held one element failed in its
\* persist and the list holds one element
C10_Witness ==
    /\ last.op = "lextend" /\ last.fails > 0 /\ last.was = "list"
    /\ Len(list_map[last.key]) = 1

\* C11: when lpop(name, pos) removes an element and the triggered persist
\* fails, lpop returns None and the element is back at index pos: the list
\* equals the sequence it was before the call, element for element.
C11_LpopRollback ==
    [][(Called("lpop") /\ last'.fails > 0) =>
            (last'.tag = "None" /\ map' = map /\ list_map' = list_map)
      ]_vars

\* C11 witness: an lpop on a list of two different elements failed in its
\* persist and the list holds both elements
C11_Witness ==
    /\ last.op = "lpop" /\ last.fails > 0 /\ last.was = "list" /\ last.tag = "None"
    /\ Len(list_map[last.key]) = 2
    /\ list_map[last.key][1] # list_map[last.key][2]

\* C12: when lrem_value(name, value) removes an element and the triggered
\* persist fails, it returns an error and the element is back at the position
\* it was removed from: the list equals the sequence it was before the call,
\* element for element.
C12_LremValueRollback ==
    [][(Called("lrem_value") /\ last'.fails > 0) =>
            (last'.tag = "ErrIo" /\ map' = map /\ list_map' = list_map)
      ]_vars

\* C12 witness: an lrem_value on a list of two different elements failed in
\* its persist and the list holds both elements
C12_Witness ==
    /\ last.op = "lrem_value" /\ last.fails > 0 /\ last.was = "list" /\ last.tag = "ErrIo"
    /\ Len(list_map[last.key]) = 2
    /\ list_map[last.key][1] # list_map[last.key][2]

\* C13: under DumpUponRequest no mutator call writes the file: for a PickleDb
\* made by new() on a path with no file, the file stays absent (and load of the
\* path fails) through any sequence of mutator calls; only an explicit dump()
\* that succeeds changes the file, and the file then holds the state at the
\* time of that dump.
C13_OnRequestNoWrite ==
    [][dump_policy = "DumpUponRequest" =>
            /\ (\E op \in Mutators : Called(op)) =>
                    (last'.writes = 0 /\ file' = file /\ temp' = temp)
            /\ file' # file =>
                    (Called("dump") /\ last'.tag = "Ok" /\ FileHolds(file', map, list_map))
            /\ load(file').res = "Ok" => file' # None
      ]_vars

\* C13 witness: under DumpUponRequest a set has stored a key, no dump() was
\* called, and load of the path fails because there is no file
C13_Witness ==
    /\ dump_policy = "DumpUponRequest"
    /\ last.op = "set" /\ last.tag = "Ok" /\ last.key \in DOMAIN map
    /\ file = None
    /\ load(file).res = "ErrIo"

\* C14: a PickleDb with the NeverDump policy, made by new() or by
\* load_read_only, never creates or changes the file (or a temporary file)
\* through any sequence of calls: mutators change only the in-memory maps,
\* dump() returns Ok without writing, and the drop writes nothing.
C14_NeverDumpNoWrite ==
    [][dump_policy = "NeverDump" =>
            /\ file' = file /\ temp' = temp
            /\ last'.writes = 0 /\ last'.fails = 0
            /\ Called("dump") => last'.tag = "Ok"
      ]_vars

\* C14 witness: a PickleDb from load_read_only whose maps were changed by
\* mutators so that they differ from the file was dropped, and the file is the
\* one it was loaded from
C14_Witness ==
    /\ dump_policy = "NeverDump"
    /\ pc = "dropped" /\ last.op = "drop"
    /\ file \in {Some(f) : f \in StoredFiles}
    /\ ~FileHolds(file, map, list_map)

\* the step is the drop of the PickleDb
Dropped == pc # "dropped" /\ pc' = "dropped"

C16_DropDumps ==
    [][(dump_policy \in {"AutoDump", "PeriodicDump"} /\ Dropped) =>
            /\ last'.writes + last'.fails = 1
            /\ map' = map /\ list_map' = list_map
            /\ last'.writes = 1 => FileHolds(file', map, list_map)
            /\ last'.fails = 1 => (file' = file /\ last'.tag = "Ok")
      ]_vars

\* C16 witness: a PeriodicDump PickleDb was dropped after a single mutation,
\* made within the interval of new() and so not written by the mutator; the
\* dump of the drop wrote it to the file
C16_Witness ==
    /\ dump_policy = "PeriodicDump"
    /\ pc = "dropped" /\ last.op = "drop" /\ last.writes = 1
    /\ steps = 1 /\ DOMAIN map # {}
    /\ FileHolds(file, map, list_map)

\* the step is a call of one of the mutators
MutatorStep == \E op \in Mutators : Called(op)

\* the mutator call of this step changed the maps and reached dumpdb: it
\* returned success having found its target, or its persist failed
Changing == Effective \/ last'.fails > 0

\* the call recorded in l was a mutator call that changed the maps and whose
\* file-system calls, if any, succeeded
Changed(l) ==
    /\ l.fails = 0
    /\ \/ l.op \in {"set", "lcreate"} /\ l.tag = "Ok"
       \/ l.op \in {"rem", "lrem_value"} /\ l.tag = "Ok" /\ l.val = 1
       \/ l.op \in {"ladd", "lextend"} /\ l.tag = "Some"
       \/ l.op = "lrem_list" /\ l.tag = "Ok" /\ l.was = "list"
       \/ l.op = "lpop" /\ l.tag = "Some"

C18_OneOrTwoWrites ==
    [][(dump_policy = "PeriodicDump" /\ Changed(last) /\ MutatorStep /\ Effective) =>
            /\ since_call < Duration => last.writes + last'.writes <= 1
            /\ since_call > Duration => last.writes + last'.writes = 2
      ]_vars

\* C18 (amended): under PeriodicDump(d), of two successive state-changing
\* mutations whose file-system calls succeed, when the first wrote the file
\* the second writes nothing if it comes d or less after the first (one write
\* in all) and writes the file again if it comes more than d after it (two
\* writes); when the first did not write, being d or less after last_dump,
\* the two result in at most one write, and in exactly one if they are more
\* than d apart.
C18_WritesOfTwoMutations ==
    [][(dump_policy = "PeriodicDump" /\ Changed(last) /\ MutatorStep /\ Effective) =>
            /\ since_call <= Duration => last.writes + last'.writes <= 1
            /\ (since_call <= Duration /\ last.writes = 1) => last'.writes = 0
            /\ (since_call > Duration /\ last.writes = 1) => last'.writes = 1
            /\ (since_call > Duration /\ last.writes = 0) => last'.writes = 1
      ]_vars

\* C18 witness: a mutation wrote the file, more than Duration has passed since
\* it returned, and the PickleDb is ready for the next mutation
C18_Witness ==
    /\ dump_policy = "PeriodicDump"
    /\ Changed(last) /\ last.writes = 1
    /\ since_call > Duration
    /\ Ready

\* C19: under PeriodicDump(d), every file write made by a mutator happens more
\* than d after the latest of: new() or load, the previous write made by a
\* mutator, the previous successful explicit dump(); mutations made within d
\* of new() are not written by the mutator.
C19_WriteAfterInterval ==
    [][(dump_policy = "PeriodicDump" /\ MutatorStep /\ last'.writes > 0) =>
            (since_write > Duration /\ since_write' = 0)
      ]_vars

\* C19 witness: a mutator wrote the file of a PeriodicDump PickleDb
C19_Witness ==
    /\ dump_policy = "PeriodicDump"
    /\ last.op \in Mutators /\ last.writes = 1
    /\ since_write = 0
    /\ FileHolds(file, map, list_map)

\* C20 (as claimed): under PeriodicDump(d), when the persist attempted by a
\* mutator fails last_dump is not advanced, and the next state-changing
\* mutator call attempts a persist again.
C20_FailedPersistRetried ==
    [][dump_policy = "PeriodicDump" =>
            /\ (MutatorStep /\ last'.fails > 0) => since_dump' = since_dump
            /\ (last.op \in Mutators /\ last.fails > 0 /\ MutatorStep /\ Changing) =>
                    last'.writes + last'.fails = 1
      ]_vars

C22_Override ==
    /\ (last.op = "lcreate" /\ last.tag = "Ok" /\ last.was = "scalar") =>
            /\ exists(last.key)
            /\ \A ty \in Types : get(last.key, ty) = None
            /\ lexists(last.key)
            /\ llen(list_map, last.key) = 0
    /\ (last.op = "set" /\ last.tag = "Ok" /\ last.was = "list") =>
            /\ get(last.key, last.arg.ty) = Some(last.arg)
            /\ ~lexists(last.key)
            /\ llen(list_map, last.key) = 0

\* C22 witness: lcreate has just succeeded on a key that held a scalar
C22_Witness ==
    /\ last.op = "lcreate" /\ last.tag = "Ok" /\ last.was = "scalar"
    /\ lexists(last.key) /\ since_call = 0

\* C23: get(k) reflects the most recent successful set(k, .): right after a
\* successful set(k, w), get(k) is Some(w) when asked for w's type and None
\* when asked for the other type, whatever an earlier set had stored; get(k)
\* is None for every type when k is absent or names a list; the result is
\* always an Option, never an error.
C23_GetLatestSet ==
    /\ (last.op = "set" /\ last.tag = "Ok") =>
            /\ get(last.key, last.arg.ty) = Some(last.arg)
            /\ \A ty \in Types \ {last.arg.ty} : get(last.key, ty) = None
    /\ \A k \in Keys, ty \in Types :
            /\ Was(k) \in {"absent", "list"} => get(k, ty) = None
            /\ get(k, ty) \in {None} \cup {Some(v) : v \in Values}

\* C23 witness: a set has just replaced a value of the other type, which the
\* file written by an earlier dump() still holds
C23_Witness ==
    /\ last.op = "set" /\ last.tag = "Ok" /\ last.was = "scalar" /\ since_call = 0
    /\ get(last.key, last.arg.ty) = Some(last.arg)
    /\ file # None
    /\ \E v \in Values :
            /\ v.ty # last.arg.ty
            /\ Get(load(file).map, last.key) = Some(serialize_data(v).data)

\* C24: lget(name, i) is None whenever i >= llen(name); for a name that is
\* not a list, absent or a scalar key, llen(name) is 0 and lget(name, i) is
\* None for every i; both calls return a plain value, not an error, and leave
\* the PickleDb and the files as they were.
C24_LgetLlenCorners ==
    [][/\ Called("lget") =>
            /\ last'.tag \in {"None", "Some"}
            /\ last'.arg.v >= llen(list_map, last'.key) => last'.tag = "None"
            /\ last'.key \notin DOMAIN list_map => last'.tag = "None"
            /\ UNCHANGED <<map, list_map, dump_policy, file, temp, pc>>
       /\ Called("llen") =>
            /\ last'.tag = "Ok"
            /\ last'.val = IF last'.key \in DOMAIN list_map
                           THEN Len(list_map[last'.key]) ELSE 0
            /\ UNCHANGED <<map, list_map, dump_policy, file, temp, pc>>
      ]_vars

\* C24 witness: lget was called at the index just past the end of a list that
\* is not empty
C24_Witness ==
    /\ last.op = "lget" /\ since_call = 0
    /\ last.key \in DOMAIN list_map
    /\ list_map[last.key] # <<>>
    /\ last.arg.v = Len(list_map[last.key])

\* a call that finds nothing to act on: ladd or lextend on a name that is not
\* a list, rem of a key in neither map, lpop of an absent list or past the end
\* of one, lrem_value on an absent list or with a value no element encodes,
\* lrem_list of a name that is not a list
NotFoundCall ==
    \/ (Called("ladd") \/ Called("lextend")) /\ last'.key \notin DOMAIN list_map
    \/ Called("rem") /\ Was(last'.key) = "absent"
    \/ /\ Called("lpop")
       /\ \/ last'.key \notin DOMAIN list_map
          \/ last'.arg.v >= Len(list_map[last'.key])
    \/ /\ Called("lrem_value")
       /\ \/ last'.key \notin DOMAIN list_map
          \/ /\ serialize_data(last'.arg).ok
             /\ \A i \in 1..Len(list_map[last'.key]) :
                    list_map[last'.key][i] # serialize_data(last'.arg).data
    \/ Called("lrem_list") /\ last'.key \notin DOMAIN list_map

\* C25: calls that report not-found are no-ops, under every policy: such a
\* call returns None (ladd, lextend, lpop), Ok(false) (rem, lrem_value) or
\* Ok(0) (lrem_list), leaves both maps as they were, so creates no list, and
\* attempts no file write.
C25_NotFoundNoOp ==
    [][NotFoundCall =>
            /\ last'.op \in {"ladd", "lextend", "lpop"} => last'.tag = "None"
            /\ last'.op \in {"rem", "lrem_value", "lrem_list"} =>
                    (last'.tag = "Ok" /\ last'.val = 0)
            /\ map' = map /\ list_map' = list_map
            /\ file' = file /\ temp' = temp
            /\ last'.writes = 0 /\ last'.fails = 0
      ]_vars

\* C25 witness: under AutoDump, with the file written, lrem_value was called
\* on a list that is not empty with a value none of its elements encodes
C25_Witness ==
    /\ last.op = "lrem_value" /\ since_call = 0
    /\ last.tag = "Ok" /\ last.val = 0
    /\ last.was = "list" /\ list_map[last.key] # <<>>
    /\ dump_policy = "AutoDump" /\ file # None

\* C26 (as claimed): under every policy and every persist outcome, ladd or
\* lextend returns None if and only if the name is not a list at the time of
\* the call.
C26_NoneIffNotList ==
    [][(Called("ladd") \/ Called("lextend")) =>
            (last'.tag = "None" <=> last'.key \notin DOMAIN list_map)
      ]_vars

\* C26 (amended): ladd or lextend returns None if and only if the name is not
\* a list at the time of the call or the persist it triggered failed; when it
\* returns None for the second reason the list exists, as it was before.
C26_NoneIffNotListOrFailed ==
    [][(Called("ladd") \/ Called("lextend")) =>
            /\ last'.tag = "None" <=>
                    (last'.key \notin DOMAIN list_map \/ last'.fails > 0)
            /\ (last'.tag = "None" /\ last'.key \in DOMAIN list_map) =>
                    (last'.key \in DOMAIN list_map' /\ list_map' = list_map)
      ]_vars

\* C26 witness: ladd or lextend returned None on a list that exists, its
\* persist having failed
C26_Witness ==
    /\ last.op \in {"ladd", "lextend"} /\ since_call = 0
    /\ last.tag = "None" /\ last.fails > 0
    /\ last.was = "list" /\ last.key \in DOMAIN list_map

\* C27 (as claimed): lpop(name, pos) returns None exactly when the list is
\* absent, pos is out of bounds or the triggered persist fails, and the list
\* is then unchanged; in every other case, whatever type is asked for, the
\* element at pos is removed, the others keeping their order, and Some is
\* returned.
C27_LpopNoneIffNothingRemoved ==
    [][Called("lpop") =>
            LET name == last'.key
                pos == last'.arg.v
                nothing == \/ name \notin DOMAIN list_map
                           \/ pos >= Len(list_map[name])
                           \/ last'.fails > 0
            IN /\ last'.tag = "None" <=> nothing
               /\ nothing => list_map' = list_map
               /\ ~nothing =>
                    /\ list_map' = [list_map EXCEPT ![name] = VecRemove(@, pos)]
                    /\ last'.tag = "Some"
      ]_vars

\* C28: lrem_value(name, value) on an existing list, when its persist does
\* not fail, removes exactly one element, the one at the lowest index whose
\* bytes equal the encoding of value, leaves every other element, later equal
\* ones included, in its order, and returns Ok(true); when no element matches
\* it returns Ok(false) and removes nothing.
C28_RemovesFirstMatch ==
    [][(/\ Called("lrem_value")
        /\ last'.key \in DOMAIN list_map
        /\ serialize_data(last'.arg).ok
        /\ last'.fails = 0) =>
            LET name == last'.key
                list == list_map[name]
                x == serialize_data(last'.arg).data
                matches == {i \in 1..Len(list) : list[i] = x}
            IN /\ last'.tag = "Ok"
               /\ map' = map
               /\ IF matches = {}
                  THEN last'.val = 0 /\ list_map' = list_map
                  ELSE LET m == CHOOSE i \in matches : \A j \in matches : i <= j
                       IN /\ last'.val = 1
                          /\ list_map' = [list_map EXCEPT ![name] =
                                [i \in 1..(Len(list) - 1) |->
                                    IF i < m THEN list[i] ELSE list[i + 1]]]
      ]_vars

\* C28 witness: lrem_value removed an element and persisted, and the list
\* still holds, after another element, one equal to the value removed
C28_Witness ==
    /\ last.op = "lrem_value" /\ since_call = 0
    /\ last.tag = "Ok" /\ last.val = 1 /\ last.writes > 0
    /\ last.key \in DOMAIN list_map
    /\ Len(list_map[last.key]) = 2
    /\ list_map[last.key][1] # serialize_data(last.arg).data
    /\ list_map[last.key][2] = serialize_data(last.arg).data

\* C29: lcreate(name) on a name that already is a list replaces it with an
\* empty list: after a successful call lexists(name) holds and llen(name) is
\* 0 whatever the list held, every other key and list is as it was, and an
\* ladd that follows on the emptied list leaves it with one element.
C29_LcreateEmptiesList ==
    [][/\ (Called("lcreate") /\ Was(last'.key) = "list" /\ last'.tag = "Ok") =>
            /\ last'.key \in DOMAIN list_map'
            /\ llen(list_map', last'.key) = 0
            /\ list_map' = [list_map EXCEPT ![last'.key] = <<>>]
            /\ map' = map
       /\ (Called("ladd") /\ last'.tag = "Some" /\ last.op = "lcreate"
                /\ last.key = last'.key /\ last.was = "list") =>
            Len(list_map'[last'.key]) = 1
      ]_vars

\* C29 witness: the first call on a database loaded with a list of three
\* elements and a key was a successful lcreate of that list
C29_Witness ==
    /\ last.op = "lcreate" /\ last.tag = "Ok" /\ last.was = "list"
    /\ steps = 1 /\ last.writes = 1
    /\ list_map[last.key] = <<>>
    /\ DOMAIN map # {}

\* C30: liter(name) on a name that is not a list panics, where every other
\* call that finds nothing returns normally; the liter call leaves the maps
\* and the files as they were; on an existing list it does not panic.
C30_LiterPanics ==
    [][/\ Called("liter") =>
            /\ last'.key \notin DOMAIN list_map =>
                    (last'.tag = "Panic" /\ pc' = "panicked")
            /\ last'.key \in DOMAIN list_map =>
                    (last'.tag = "Ok" /\ pc' = "ready")
            /\ UNCHANGED <<map, list_map, dump_policy, file, temp>>
       /\ (\/ NotFoundCall
           \/ (Called("get") \/ Called("lget")) /\ last'.tag = "None"
           \/ (Called("exists") \/ Called("lexists") \/ Called("llen")) /\ last'.val = 0) =>
            (last'.tag # "Panic" /\ pc' = "ready")
      ]_vars

\* C30 witness: liter panicked on the name of a scalar key while a list
\* exists under another name and the file is on disk
C30_Witness ==
    /\ pc = "panicked" /\ last.op = "liter" /\ last.tag = "Panic"
    /\ last.was = "scalar"
    /\ DOMAIN list_map # {}
    /\ file # None

\* a call of ladd or lextend through a PickleDbListExtender
ExtenderCalled == Called("extender_ladd") \/ Called("extender_lextend")

\* C31 (as claimed): when ladd or lextend made through an extender triggers a
\* persist that fails, the call panics, returning no extender, with the list
\* back to its elements of before the call; when every persist succeeds the
\* call does not fail.
C31_ExtenderFailsOnlyOnPersist ==
    [][ExtenderCalled =>
            /\ last'.fails > 0 =>
                    (last'.tag = "Panic" /\ list_map' = list_map /\ map' = map)
            /\ last'.fails = 0 => last'.tag = "Some"
      ]_vars

\* C31 (amended): when ladd or lextend made through an extender triggers a
\* persist that fails, the call panics with the list back to its elements of
\* before the call; the call returns an extender if and only if every item
\* can be encoded and the persist does not fail; when an item cannot be
\* encoded it panics before anything is added or written.
C31_ExtenderFailsOnPersistOrItem ==
    [][ExtenderCalled =>
            LET encodable == \A i \in 1..Len(last'.arg) : serialize_data(last'.arg[i]).ok
            IN /\ last'.fails > 0 =>
                    (last'.tag = "Panic" /\ list_map' = list_map /\ map' = map)
               /\ last'.tag = "Some" <=> (encodable /\ last'.fails = 0)
               /\ last'.tag # "Some" => (last'.tag = "Panic" /\ pc' = "panicked")
               /\ ~encodable =>
                    /\ last'.writes = 0 /\ last'.fails = 0
                    /\ UNCHANGED <<map, list_map, file, temp>>
      ]_vars

\* C31 witness: an extender call panicked on a failed persist, the list
\* holding the elements an earlier call had added
C31_Witness ==
    /\ last.op \in {"extender_ladd", "extender_lextend"} /\ since_call = 0
    /\ pc = "panicked" /\ last.tag = "Panic" /\ last.fails > 0
    /\ list_map[last.key] # <<>>

\* C32: a successful lextend(name, seq) leaves the list equal to what it held
\* followed by the encodings of seq in order, every other list and every key
\* as they were; ladd(name, v) does what lextend(name, [v]) does; ladd and
\* lextend made through an extender do what the same calls do when made on
\* the PickleDb.
C32_ExtendAppends ==
    [][((Called("ladd") \/ Called("lextend") \/ ExtenderCalled) /\ last'.tag = "Some") =>
            LET seq == last'.arg
                serialized == [i \in 1..Len(seq) |-> serialize_data(seq[i]).data]
            IN /\ last'.key \in DOMAIN list_map
               /\ list_map' = [list_map EXCEPT ![last'.key] = @ \o serialized]
               /\ map' = map
               /\ last'.op \in {"ladd", "extender_ladd"} => Len(seq) = 1
      ]_vars

\* C32 witness: an extender call added one item, of another encoding, after
\* the one the list held
C32_Witness ==
    /\ last.op \in {"extender_ladd", "extender_lextend"} /\ since_call = 0
    /\ last.tag = "Some" /\ Len(last.arg) = 1
    /\ Len(list_map[last.key]) = 2
    /\ list_map[last.key][1] # list_map[last.key][2]
    /\ list_map[last.key][2] = serialize_data(last.arg[1]).data

C34_LremListOnlyLists ==
    [][(Called("lrem_list") /\ last'.tag = "Ok") =>
            /\ last'.val = IF last'.key \in DOMAIN list_map
                           THEN Len(list_map[last'.key]) ELSE 0
            /\ list_map' = Remove(list_map, last'.key)
            /\ map' = map
            /\ \A k \in Keys, ty \in Types : get(k, ty)' = get(k, ty)
      ]_vars

\* C34 witness: lrem_list was called with the name of a scalar key, returned
\* Ok(0), and the key still reads as the value stored
C34_Witness ==
    /\ last.op = "lrem_list" /\ since_call = 0
    /\ last.tag = "Ok" /\ last.val = 0 /\ last.was = "scalar"
    /\ \E ty \in Types : get(last.key, ty) # None
    /\ DOMAIN list_map # {}

\* C35: when an explicit dump() fails, the write of the temporary file or the
\* rename failing, under a policy other than NeverDump, it returns an I/O
\* error, the database file keeps exactly the content it had and the maps
\* are as they were.
C35_FailedDumpKeepsFile ==
    [][(Called("dump") /\ dump_policy # "NeverDump" /\ last'.fails > 0) =>
            /\ last'.tag = "ErrIo"
            /\ file' = file
            /\ map' = map /\ list_map' = list_map
      ]_vars

\* C35 witness: a dump() failed while the file held a database that is not
\* the one in memory
C35_Witness ==
    /\ last.op = "dump" /\ since_call = 0
    /\ last.tag = "ErrIo" /\ last.fails > 0
    /\ file # None
    /\ load(file).res = "Ok"
    /\ ~FileHolds(file, map, list_map)

\* C36: in every state of a PickleDb made by new(), total_keys() is the
\* length of get_all(), get_all() holds no key twice, and a key is in
\* get_all() if and only if exists(key) is true.
C36_KeysAgree ==
    /\ total_keys = Len(get_all)
    /\ \A i, j \in 1..Len(get_all) : i # j => get_all[i] # get_all[j]
    /\ \A k \in Keys : (\E i \in 1..Len(get_all) : get_all[i] = k) <=> exists(k)

\* C36 witness: the PickleDb holds a scalar key and a list
C36_Witness ==
    /\ pc = "ready"
    /\ DOMAIN map # {} /\ DOMAIN list_map # {}
    /\ Len(get_all) = 2
    /\ \A k \in Keys : exists(k)

\* C37 (as claimed): when two PickleDb instances dump to one path, the steps
\* of their dump() calls interleaved in any order, the temporary-file names
\* equal or not, the database file holds at every point the whole encoding
\* of one instance's state, or what it held before.
C37_RaceKeepsFileWhole ==
    file # None =>
        /\ file[1].complete
        /\ file[1] \in {Encoding(1), Encoding(2)} \cup QueryFiles

\* C38 (as claimed): after dump() returns, with Ok or with an error, no
\* temporary file made by that call is left on disk: when none was there before
\* the call, none is there after it.
C38_NoTempFileLeft ==
    [][(Called("dump") /\ temp = None) => temp' = None]_vars

\* C39 (as claimed): a PickleDb returned by load() has no key in both maps,
\* whatever decodable file it was loaded from, so that on it rem(key) removes
\* at most one entry and attempts at most one persist.
C39_LoadedPartition ==
    /\ [](\A k \in Keys : ~(k \in DOMAIN map /\ k \in DOMAIN list_map))
    /\ [][Called("rem") =>
            /\ total_keys - total_keys' <= 1
            /\ last'.writes + last'.fails <= 1
         ]_vars

\* C4: with a single PickleDb writing to a path, if the process crashes at a
\* step of dump() before the rename (after encoding, during the write of the
\* temporary file, between the write and the rename), the file holds the whole
\* content of the last dump that finished, or does not exist if none did; in
\* no reachable state does the file hold partly written content.
C4_CrashLeavesFile ==
    /\ file # None => file[1].complete
    /\ (\/ pc \in {"encoded", "writing", "written"}
        \/ pc = "crashed" /\ last.tag \in {"encoded", "writing", "written"})
            => file = durable

\* C4 witness: the process crashed during the write of the temporary file,
\* which is left incomplete, while the file holds an earlier dump that differs
\* from what was being written
C4_Witness ==
    /\ pc = "crashed" /\ last.tag = "writing"
    /\ temp = Some(PartialContent)
    /\ file # None /\ file = durable /\ file # Some(ser_db)

====
